---- MODULE Spec2Model ----
(***************************************************************************)
(* Functional 8-puzzle solver (src/functional/main.py).                    *)
(*                                                                         *)
(* A Board is a tuple of three rows of three integers, 0 is the blank.     *)
(* Coordinates keep the source's 0-based (row, col) convention; a board    *)
(* cell (r, c) is board[r + 1][c + 1] because TLA+ tuples start at 1.      *)
(*                                                                         *)
(* Spec      runs one top-level call solve(initial_board, goal_board,      *)
(*           max_depth=...) as a state machine with an explicit call stack. *)
(* SpecPure  applies the pure helpers (next_states, manhattan_distance)    *)
(*           to boards reached by a bounded walk of blank slides.          *)
(***************************************************************************)
EXTENDS Integers, Sequences, FiniteSets, TLC

VARIABLES
    initial_board,  \* the board argument of the top-level call
    goal_board,     \* the goal argument, passed unchanged to every call
    max_depth_arg,  \* the max_depth argument, passed unchanged to every call
    pc,             \* "call" | "loop" | "ret" | "done"
    arg_board,      \* board argument of the invocation about to run
    arg_path,       \* path argument of the invocation about to run (Optional)
    stack,          \* suspended/looping invocations of solve, innermost last
    result,         \* value returned by the invocation that just returned
    pboard,         \* SpecPure: the board the helpers are applied to
    pgoal,          \* SpecPure: the goal the heuristic is measured against
    psucc,          \* SpecPure: next_states(pboard)
    pdist,          \* SpecPure: manhattan_distance(pboard, pgoal)
    psorted,        \* SpecPure: sort_moves_by_heuristic(psucc, pgoal)
    ptiles,         \* SpecPure: find_tile_position(pboard, v) for each value v
    pzero,          \* SpecPure: find_zero(pboard)
    psteps          \* SpecPure: number of slides walked so far

vars == <<initial_board, goal_board, max_depth_arg, pc, arg_board, arg_path,
          stack, result, pboard, pgoal, psucc, pdist, psorted, ptiles, pzero,
          psteps>>

solveVars == <<initial_board, goal_board, max_depth_arg, pc, arg_board,
               arg_path, stack, result>>

pureVars == <<pboard, pgoal, psucc, pdist, psorted, ptiles, pzero, psteps>>

----------------------------------------------------------------------------
(* Bounds of the model *)

MaxDepth == 4        \* max_depth arguments explored exhaustively: 0..MaxDepth
MaxScramble == 3     \* start boards lie within this many slides of the goal
MaxWalk == 4         \* SpecPure: longest walk of slides from a seed board

(* Program constants *)

DefaultMaxDepth == 40    \* solve(..., max_depth: int = 40)
PruneDepth == 25         \* len(path) > 25
PruneNum == 13           \* len(path) * 1.3, as the fraction 13 / 10
PruneDen == 10
Tolerance == 2           \* next_distance <= current_distance + 2

----------------------------------------------------------------------------
(* Optional[List[Board]]: None, or a list of boards *)

None == [none |-> TRUE, path |-> << >>]

Some(p) == [none |-> FALSE, path |-> p]

\* Mutation: the test of the recursive call's result is inverted
Truthy_inverted(r) == r.none

\* Python truthiness of an Optional[List]: None and [] are both falsy
Truthy(r) == ~r.none /\ Len(r.path) > 0

Abs(x) == IF x < 0 THEN -x ELSE x

\* seq[i] for a Python list/tuple: 0-based, a negative index counts from the end
At(seq, i) == IF i < 0 THEN seq[Len(seq) + i + 1] ELSE seq[i + 1]

\* `x in seq` for a Python list/tuple
Contains(seq, x) == \E i \in 1..Len(seq) : seq[i] = x

----------------------------------------------------------------------------
(* find_tile_position: row-major search, (-1, -1) when the tile is absent *)

RECURSIVE search_rows(_, _, _), search_cols(_, _, _, _)

\* Mutation: an exhausted search returns the last cell instead of (-1, -1)
search_rows_last_position(target_board, tile, row_idx) ==
    IF row_idx >= 3 THEN <<2, 2>>
    ELSE search_cols(target_board, tile, row_idx, 0)

search_rows(target_board, tile, row_idx) ==
    IF row_idx >= 3 THEN <<-1, -1>>
    ELSE search_cols(target_board, tile, row_idx, 0)

search_cols(target_board, tile, row_idx, col_idx) ==
    IF col_idx >= 3 THEN search_rows(target_board, tile, row_idx + 1)
    ELSE IF At(At(target_board, row_idx), col_idx) = tile
         THEN <<row_idx, col_idx>>
         ELSE search_cols(target_board, tile, row_idx, col_idx + 1)

find_tile_position(target_board, tile) == search_rows(target_board, tile, 0)

calculate_tile_distance(board, goal, tile) ==
    IF tile = 0 THEN 0
    ELSE LET curr == find_tile_position(board, tile)
             gpos == find_tile_position(goal, tile)
         IN  IF curr[1] = -1 \/ gpos[1] = -1 THEN 0
             ELSE Abs(curr[1] - gpos[1]) + Abs(curr[2] - gpos[2])

RECURSIVE sum_distances(_, _, _)

sum_distances(board, goal, tile) ==
    IF tile > 8 THEN 0
    ELSE calculate_tile_distance(board, goal, tile)
         + sum_distances(board, goal, tile + 1)

\* Mutation: the blank is counted like a tile (sum starts at 0, no tile == 0 case)
RECURSIVE sum_distances_with_blank(_, _, _)

sum_distances_with_blank(board, goal, tile) ==
    IF tile > 8 THEN 0
    ELSE LET curr == find_tile_position(board, tile)
             gpos == find_tile_position(goal, tile)
         IN  (IF curr[1] = -1 \/ gpos[1] = -1 THEN 0
              ELSE Abs(curr[1] - gpos[1]) + Abs(curr[2] - gpos[2]))
             + sum_distances_with_blank(board, goal, tile + 1)

manhattan_distance_with_blank(board, goal) ==
    sum_distances_with_blank(board, goal, 0)

manhattan_distance(board, goal) == sum_distances(board, goal, 1)

----------------------------------------------------------------------------
(* find_zero: the same search, specialised to the blank *)

RECURSIVE find_zero_search_rows(_, _), find_zero_search_cols(_, _, _)

find_zero_search_rows(board, row_idx) ==
    IF row_idx >= 3 THEN <<-1, -1>>
    ELSE find_zero_search_cols(board, row_idx, 0)

find_zero_search_cols(board, row_idx, col_idx) ==
    IF col_idx >= 3 THEN find_zero_search_rows(board, row_idx + 1)
    ELSE IF At(At(board, row_idx), col_idx) = 0
         THEN <<row_idx, col_idx>>
         ELSE find_zero_search_cols(board, row_idx, col_idx + 1)

find_zero(board) == find_zero_search_rows(board, 0)

----------------------------------------------------------------------------
(* swap: a new board with the contents of (r1, c1) and (r2, c2) exchanged *)

RECURSIVE build_cell(_, _, _, _, _, _, _)

build_cell(board, r1, c1, r2, c2, row_idx, col_idx) ==
    IF col_idx >= 3 THEN << >>
    ELSE LET value == IF row_idx = r1 /\ col_idx = c1
                         THEN At(At(board, r2), c2)
                      ELSE IF row_idx = r2 /\ col_idx = c2
                         THEN At(At(board, r1), c1)
                      ELSE At(At(board, row_idx), col_idx)
         IN  <<value>> \o build_cell(board, r1, c1, r2, c2, row_idx, col_idx + 1)

\* Mutation: the second position keeps its own value (only one cell is written)
RECURSIVE build_cell_one_sided(_, _, _, _, _, _, _)

build_cell_one_sided(board, r1, c1, r2, c2, row_idx, col_idx) ==
    IF col_idx >= 3 THEN << >>
    ELSE LET value == IF row_idx = r1 /\ col_idx = c1
                         THEN At(At(board, r2), c2)
                      ELSE At(At(board, row_idx), col_idx)
         IN  <<value>>
             \o build_cell_one_sided(board, r1, c1, r2, c2, row_idx, col_idx + 1)

build_row(board, r1, c1, r2, c2, row_idx) ==
    build_cell(board, r1, c1, r2, c2, row_idx, 0)

RECURSIVE build_board(_, _, _, _, _, _)

build_board(board, r1, c1, r2, c2, row_idx) ==
    IF row_idx >= Len(board) THEN << >>
    ELSE <<build_row(board, r1, c1, r2, c2, row_idx)>>
         \o build_board(board, r1, c1, r2, c2, row_idx + 1)

swap_one_sided(board, r1, c1, r2, c2) ==
    [i \in 1..Len(board) |->
        build_cell_one_sided(board, r1, c1, r2, c2, i - 1, 0)]

swap(board, r1, c1, r2, c2) == build_board(board, r1, c1, r2, c2, 0)

----------------------------------------------------------------------------
(* next_states: the boards one blank slide away, in direction order *)

\* Mutation: the last direction moves diagonally (down-right) instead of right
directions_diagonal == << <<-1, 0>>, <<1, 0>>, <<0, -1>>, <<1, 1>> >>

\* Mutation: left and right are tried before up and down
directions_reordered == << <<0, -1>>, <<0, 1>>, <<-1, 0>>, <<1, 0>> >>

\* up, down, left, right
directions == << <<-1, 0>>, <<1, 0>>, <<0, -1>>, <<0, 1>> >>

RECURSIVE generate_moves(_, _, _, _)

generate_moves(board, zero_row, zero_col, dir_idx) ==
    IF dir_idx >= Len(directions) THEN << >>
    ELSE LET dr == At(At(directions, dir_idx), 0)
             dc == At(At(directions, dir_idx), 1)
             new_row == zero_row + dr
             new_col == zero_col + dc
         IN  IF 0 <= new_row /\ new_row < 3 /\ 0 <= new_col /\ new_col < 3
             THEN <<swap(board, zero_row, zero_col, new_row, new_col)>>
                  \o generate_moves(board, zero_row, zero_col, dir_idx + 1)
             ELSE generate_moves(board, zero_row, zero_col, dir_idx + 1)

next_states(board) ==
    LET zero == find_zero(board)
    IN  generate_moves(board, zero[1], zero[2], 0)

----------------------------------------------------------------------------
(* Move ordering: recursive insertion sort by manhattan_distance *)

\* Mutation: an equal-distance move is inserted after the moves already sorted
RECURSIVE insert_move_by_heuristic_strict(_, _, _)

insert_move_by_heuristic_strict(move, sorted_moves, goal) ==
    IF sorted_moves = << >> THEN <<move>>
    ELSE LET move_distance == manhattan_distance(move, goal)
             first_distance == manhattan_distance(sorted_moves[1], goal)
         IN  IF move_distance < first_distance
             THEN <<move>> \o sorted_moves
             ELSE <<sorted_moves[1]>>
                  \o insert_move_by_heuristic_strict(move, Tail(sorted_moves), goal)

RECURSIVE insert_move_by_heuristic(_, _, _)

insert_move_by_heuristic(move, sorted_moves, goal) ==
    IF sorted_moves = << >> THEN <<move>>
    ELSE LET move_distance == manhattan_distance(move, goal)
             first_distance == manhattan_distance(sorted_moves[1], goal)
         IN  IF move_distance <= first_distance
             THEN <<move>> \o sorted_moves
             ELSE <<sorted_moves[1]>>
                  \o insert_move_by_heuristic(move, Tail(sorted_moves), goal)

RECURSIVE sort_moves(_, _, _)

sort_moves(unsorted, sorted_result, goal) ==
    IF unsorted = << >> THEN sorted_result
    ELSE sort_moves(Tail(unsorted),
                    insert_move_by_heuristic(unsorted[1], sorted_result, goal),
                    goal)

sort_moves_by_heuristic(moves, goal) == sort_moves(moves, << >>, goal)

\* Mutation: the tolerance is forgotten (only non-worsening moves pass)
is_move_promising_no_tolerance(move, goal, current_distance) ==
    manhattan_distance(move, goal) <= current_distance

\* Mutation: the tolerance is applied on the wrong side of the comparison
is_move_promising_strict(move, goal, current_distance) ==
    manhattan_distance(move, goal) + Tolerance <= current_distance

is_move_promising(move, goal, current_distance) ==
    LET next_distance == manhattan_distance(move, goal)
    IN  next_distance <= current_distance + Tolerance

----------------------------------------------------------------------------
(* solve: one invocation, from its entry up to the head of the for loop.   *)
(* The outcome either returns at once (returns = TRUE, with the value) or  *)
(* reaches the loop with the locals path, current_distance, sorted_moves.  *)

ReturnNow(path, value) ==
    [returns |-> TRUE, result |-> value, path |-> path,
     current_distance |-> 0, sorted_moves |-> << >>]

\* Mutation: the factor 1.3 is applied to the distance instead of the length
relaxed_pruning_factor_swapped(path_len, current_distance) ==
    /\ path_len > PruneDepth
    /\ PruneNum * current_distance > PruneDen * path_len

\* Line 537. len(path) * 1.3 is a float product; for the integers compared
\* current_distance > len(path) * 1.3 is 10 * current_distance > 13 * len(path)
relaxed_pruning(path_len, current_distance) ==
    /\ path_len > PruneDepth
    /\ PruneDen * current_distance > PruneNum * path_len

\* Mutation: the depth check lets one more board through (max_depth + 1)
solve_entry_depth_slack(board, goal, path_arg, max_depth) ==
    LET path == IF path_arg.none THEN <<board>> ELSE path_arg.path
        current_distance == manhattan_distance(board, goal)
    IN  IF Len(path) > max_depth + 1 THEN ReturnNow(path, None)
        ELSE IF board = goal THEN ReturnNow(path, Some(path))
        ELSE IF Contains(SubSeq(path, 1, Len(path) - 1), board)
             THEN ReturnNow(path, None)
        ELSE IF relaxed_pruning(Len(path), current_distance)
             THEN ReturnNow(path, None)
        ELSE [returns |-> FALSE, result |-> None, path |-> path,
              current_distance |-> current_distance,
              sorted_moves |-> sort_moves_by_heuristic(next_states(board), goal)]

\* Mutation: the goal check runs before the depth check
solve_entry_goal_first(board, goal, path_arg, max_depth) ==
    LET path == IF path_arg.none THEN <<board>> ELSE path_arg.path
        current_distance == manhattan_distance(board, goal)
    IN  IF board = goal THEN ReturnNow(path, Some(path))
        ELSE IF Len(path) > max_depth THEN ReturnNow(path, None)
        ELSE IF Contains(SubSeq(path, 1, Len(path) - 1), board)
             THEN ReturnNow(path, None)
        ELSE IF relaxed_pruning(Len(path), current_distance)
             THEN ReturnNow(path, None)
        ELSE [returns |-> FALSE, result |-> None, path |-> path,
              current_distance |-> current_distance,
              sorted_moves |-> sort_moves_by_heuristic(next_states(board), goal)]

\* Mutation: the depth check is off by one (>= instead of >)
solve_entry_depth_off_by_one(board, goal, path_arg, max_depth) ==
    LET path == IF path_arg.none THEN <<board>> ELSE path_arg.path
        current_distance == manhattan_distance(board, goal)
    IN  IF Len(path) >= max_depth THEN ReturnNow(path, None)
        ELSE IF board = goal THEN ReturnNow(path, Some(path))
        ELSE IF Contains(SubSeq(path, 1, Len(path) - 1), board)
             THEN ReturnNow(path, None)
        ELSE IF relaxed_pruning(Len(path), current_distance)
             THEN ReturnNow(path, None)
        ELSE [returns |-> FALSE, result |-> None, path |-> path,
              current_distance |-> current_distance,
              sorted_moves |-> sort_moves_by_heuristic(next_states(board), goal)]

\* Lines 516-541
solve_entry(board, goal, path_arg, max_depth) ==
    LET path == IF path_arg.none THEN <<board>> ELSE path_arg.path
        current_distance == manhattan_distance(board, goal)
    IN  IF Len(path) > max_depth THEN ReturnNow(path, None)
        ELSE IF board = goal THEN ReturnNow(path, Some(path))
        ELSE IF Contains(SubSeq(path, 1, Len(path) - 1), board)
             THEN ReturnNow(path, None)
        ELSE IF relaxed_pruning(Len(path), current_distance)
             THEN ReturnNow(path, None)
        ELSE [returns |-> FALSE, result |-> None, path |-> path,
              current_distance |-> current_distance,
              sorted_moves |-> sort_moves_by_heuristic(next_states(board), goal)]

\* Mutation: the path membership test is dropped from the loop condition
should_explore_no_path_check(next_board, path, goal, current_distance) ==
    is_move_promising(next_board, goal, current_distance)

\* The condition of the if statement inside the for loop
should_explore(next_board, path, goal, current_distance) ==
    /\ ~Contains(path, next_board)
    /\ is_move_promising(next_board, goal, current_distance)

\* Mutation: a successful caller returns its own path instead of the result
propagate_own_path(frame, callee_result) == Some(frame.path)

\* What an invocation returns when its recursive call succeeded
propagate(frame, callee_result) == callee_result

----------------------------------------------------------------------------
(* Input boards *)

StandardGoal == << <<1, 2, 3>>, <<4, 5, 6>>, <<7, 8, 0>> >>

CenterGoal == << <<1, 2, 3>>, <<8, 0, 4>>, <<7, 6, 5>> >>

MainInitial == << <<8, 6, 7>>, <<2, 5, 4>>, <<3, 0, 1>> >>

Goals == {StandardGoal, CenterGoal}

Cells == (0..2) \X (0..2)

IsValidBoard(b) ==
    /\ DOMAIN b = 1..3
    /\ \A r \in 1..3 : DOMAIN b[r] = 1..3
    /\ \A v \in 0..8 :
          Cardinality({p \in Cells : b[p[1] + 1][p[2] + 1] = v}) = 1

Adjacent(p, q) == Abs(p[1] - q[1]) + Abs(p[2] - q[2]) = 1

\* The board b with the contents of cells p and q exchanged
Exchange(b, p, q) ==
    [r \in 1..3 |-> [c \in 1..3 |->
        IF <<r - 1, c - 1>> = p THEN b[q[1] + 1][q[2] + 1]
        ELSE IF <<r - 1, c - 1>> = q THEN b[p[1] + 1][p[2] + 1]
        ELSE b[r][c]]]

\* The boards one legal blank slide away from b
Slides(b) ==
    {Exchange(b, p, q) : <<p, q>> \in
        {pq \in Cells \X Cells :
            b[pq[1][1] + 1][pq[1][2] + 1] = 0 /\ Adjacent(pq[1], pq[2])}}

IsSlide(a, b) == b \in Slides(a)

RECURSIVE Scrambles(_, _)

\* The boards at most n slides away from g
Scrambles(g, n) ==
    IF n = 0 THEN {g}
    ELSE LET near == Scrambles(g, n - 1)
         IN  near \cup UNION {Slides(b) : b \in near}

\* The board b with the tiles x and y exchanged (flips the solvability class)
SwapTiles(b, x, y) ==
    [r \in 1..3 |-> [c \in 1..3 |->
        IF b[r][c] = x THEN y ELSE IF b[r][c] = y THEN x ELSE b[r][c]]]

EvenStarts(g) == Scrambles(g, MaxScramble)

OddStarts(g) == {SwapTiles(b, 5, 6) : b \in Scrambles(g, MaxScramble)}

\* A duplicated value, an out-of-range value, no blank
InvalidStarts ==
    { << <<1, 1, 3>>, <<4, 5, 6>>, <<7, 8, 0>> >>,
      << <<1, 2, 3>>, <<4, 5, 6>>, <<7, 9, 0>> >>,
      << <<1, 2, 3>>, <<4, 5, 6>>, <<7, 8, 8>> >> }

\* Five slides from StandardGoal; the move the heuristic ranks first leads
\* away from the goal, so the search has to back out of failed branches
DetourStart == << <<1, 3, 5>>, <<4, 2, 0>>, <<7, 8, 6>> >>

DetourDepth == MaxDepth + 2

Starts(g) == EvenStarts(g) \cup OddStarts(g) \cup InvalidStarts
             \cup {MainInitial, DetourStart}

PureIdle ==
    /\ pboard = StandardGoal
    /\ pgoal = StandardGoal
    /\ psucc = << >>
    /\ pdist = 0
    /\ psorted = << >>
    /\ ptiles = << >>
    /\ pzero = << >>
    /\ psteps = 0

----------------------------------------------------------------------------
(* Spec: one top-level call solve(initial_board, goal_board, max_depth=...) *)

Init ==
    /\ goal_board \in Goals
    /\ initial_board \in Starts(goal_board)
    /\ \/ max_depth_arg \in 0..MaxDepth
       \/ /\ max_depth_arg = DefaultMaxDepth
          /\ initial_board \in Scrambles(goal_board, 1)
       \/ /\ max_depth_arg = DetourDepth
          /\ initial_board = DetourStart
          /\ goal_board = StandardGoal
    /\ pc = "call"
    /\ arg_board = initial_board
    /\ arg_path = None
    /\ stack = << >>
    /\ result = None
    /\ PureIdle

Top == stack[Len(stack)]

Pop == SubSeq(stack, 1, Len(stack) - 1)

\* Lines 516-541: entry of an invocation up to the head of the for loop
SolveEnter ==
    /\ pc = "call"
    /\ LET e == solve_entry(arg_board, goal_board, arg_path, max_depth_arg)
       IN  IF e.returns
           THEN /\ result' = e.result
                /\ pc' = "ret"
                /\ stack' = stack
           ELSE /\ stack' = Append(stack,
                      [board |-> arg_board, path |-> e.path,
                       current_distance |-> e.current_distance,
                       sorted_moves |-> e.sorted_moves, idx |-> 1])
                /\ pc' = "loop"
                /\ result' = result
    /\ UNCHANGED <<initial_board, goal_board, max_depth_arg, arg_board, arg_path>>
    /\ UNCHANGED pureVars

\* Lines 544-548 and 552: one iteration of the for loop, or its exhaustion
SolveLoop ==
    /\ pc = "loop"
    /\ LET f == Top
       IN  IF f.idx > Len(f.sorted_moves)
           THEN /\ result' = None
                /\ stack' = Pop
                /\ pc' = "ret"
                /\ UNCHANGED <<arg_board, arg_path>>
           ELSE LET next_board == f.sorted_moves[f.idx]
                IN  IF should_explore(next_board, f.path, goal_board,
                                      f.current_distance)
                    THEN /\ arg_board' = next_board
                         /\ arg_path' = Some(f.path \o <<next_board>>)
                         /\ pc' = "call"
                         /\ UNCHANGED <<stack, result>>
                    ELSE /\ stack' = [stack EXCEPT ![Len(stack)].idx = f.idx + 1]
                         /\ UNCHANGED <<pc, arg_board, arg_path, result>>
    /\ UNCHANGED <<initial_board, goal_board, max_depth_arg>>
    /\ UNCHANGED pureVars

\* Lines 548-550: the recursive call returned to its caller
SolveReturn ==
    /\ pc = "ret"
    /\ stack # << >>
    /\ IF Truthy(result)
       THEN /\ result' = propagate(Top, result)
            /\ stack' = Pop
            /\ pc' = "ret"
       ELSE /\ stack' = [stack EXCEPT ![Len(stack)].idx = Top.idx + 1]
            /\ pc' = "loop"
            /\ result' = result
    /\ UNCHANGED <<initial_board, goal_board, max_depth_arg, arg_board, arg_path>>
    /\ UNCHANGED pureVars

\* The top-level call returned to its caller
SolveDone ==
    /\ pc = "ret"
    /\ stack = << >>
    /\ pc' = "done"
    /\ UNCHANGED <<initial_board, goal_board, max_depth_arg, arg_board,
                   arg_path, stack, result>>
    /\ UNCHANGED pureVars

Next == SolveEnter \/ SolveLoop \/ SolveReturn \/ SolveDone

Spec == Init /\ [][Next]_vars

----------------------------------------------------------------------------
(* SpecPure: the pure helpers applied along a bounded walk of slides *)

\* The last seed is a board at the largest distance (22) from StandardGoal
PureSeeds == Goals \cup {MainInitial} \cup InvalidStarts
             \cup { << <<1, 0, 3>>, <<4, 2, 6>>, <<7, 5, 8>> >>,
                    << <<0, 8, 7>>, <<6, 5, 4>>, <<3, 2, 1>> >>,
                    << <<5, 4, 7>>, <<2, 0, 8>>, <<3, 6, 1>> >> }

\* The values looked up on a board: every legal value and one that is not
LookupValues == 0..9

\* find_tile_position applied to every looked-up value
locate_all(board) ==
    [v \in LookupValues |-> find_tile_position(board, v)]

SolveIdle ==
    /\ initial_board = StandardGoal
    /\ goal_board = StandardGoal
    /\ max_depth_arg = DefaultMaxDepth
    /\ pc = "done"
    /\ arg_board = StandardGoal
    /\ arg_path = None
    /\ stack = << >>
    /\ result = None

InitPure ==
    /\ pboard \in PureSeeds
    /\ pgoal \in Goals
    /\ psucc = next_states(pboard)
    /\ pdist = manhattan_distance(pboard, pgoal)
    /\ psorted = sort_moves_by_heuristic(psucc, pgoal)
    /\ ptiles = locate_all(pboard)
    /\ pzero = find_zero(pboard)
    /\ psteps = 0
    /\ SolveIdle

\* Slide the blank to one of the generated successors and apply the helpers
PureSlide ==
    /\ psteps < MaxWalk
    /\ \E i \in 1..Len(psucc) :
          /\ pboard' = psucc[i]
          /\ psucc' = next_states(psucc[i])
          /\ pdist' = manhattan_distance(psucc[i], pgoal)
          /\ psorted' = sort_moves_by_heuristic(next_states(psucc[i]), pgoal)
          /\ ptiles' = locate_all(psucc[i])
          /\ pzero' = find_zero(psucc[i])
    /\ psteps' = psteps + 1
    /\ UNCHANGED pgoal
    /\ UNCHANGED solveVars

NextPure == PureSlide

SpecPure == InitPure /\ [][NextPure]_vars

----------------------------------------------------------------------------
(* Vocabulary of the properties *)

Last(seq) == seq[Len(seq)]

NoRepeat(seq) == \A i, j \in 1..Len(seq) : i # j => seq[i] # seq[j]

\* The path local of the invocation about to run (line 517-518)
EntryPath == IF arg_path.none THEN <<arg_board>> ELSE arg_path.path

ValidInputs == IsValidBoard(initial_board) /\ IsValidBoard(goal_board)

Flat(b) == b[1] \o b[2] \o b[3]

\* Number of inversions among the eight tiles, read row by row
Inversions(b) ==
    Cardinality({ij \in (1..9) \X (1..9) :
        /\ ij[1] < ij[2]
        /\ Flat(b)[ij[1]] # 0
        /\ Flat(b)[ij[2]] # 0
        /\ Flat(b)[ij[1]] > Flat(b)[ij[2]]})

OddParity(b, g) == Inversions(b) % 2 # Inversions(g) % 2

BlankCell(b) == CHOOSE p \in Cells : b[p[1] + 1][p[2] + 1] = 0

\* Up, down, left, right of the blank, keeping the targets inside the grid
ExpectedSuccessors(b) ==
    LET z == BlankCell(b)
        targets == << <<z[1] - 1, z[2]>>, <<z[1] + 1, z[2]>>,
                      <<z[1], z[2] - 1>>, <<z[1], z[2] + 1>> >>
        Inside(t) == t \in Cells
        kept == SelectSeq(targets, Inside)
    IN  [i \in 1..Len(kept) |-> Exchange(b, z, kept[i])]

ExpectedCount(b) ==
    LET z == BlankCell(b)
    IN  IF z = <<1, 1>> THEN 4
        ELSE IF z[1] # 1 /\ z[2] # 1 THEN 2
        ELSE 3

----------------------------------------------------------------------------
(* C1: whenever the top-level call on valid boards returns a path, the path *)
(* starts at the start board, ends at the goal, and every consecutive pair  *)
(* of boards differs by exactly one legal blank slide.                      *)
C1_ReturnedPathIsLegal ==
    (pc = "done" /\ ValidInputs /\ ~result.none) =>
        /\ Len(result.path) >= 1
        /\ result.path[1] = initial_board
        /\ Last(result.path) = goal_board
        /\ \A i \in 1..(Len(result.path) - 1) :
              IsSlide(result.path[i], result.path[i + 1])

C1_Witness ==
    /\ pc = "done"
    /\ ValidInputs
    /\ ~result.none
    /\ Len(result.path) >= 4

C3_PathHasNoRepeat ==
    /\ pc = "call" =>
          /\ Last(EntryPath) = arg_board
          /\ NoRepeat(EntryPath)
          /\ ~Contains(SubSeq(EntryPath, 1, Len(EntryPath) - 1), arg_board)
    /\ \A k \in 1..Len(stack) :
          /\ Last(stack[k].path) = stack[k].board
          /\ NoRepeat(stack[k].path)
    /\ ~result.none => NoRepeat(result.path)

C3_Witness ==
    /\ pc = "loop"
    /\ Len(Top.path) >= 3
    /\ Top.idx <= Len(Top.sorted_moves)
    /\ Contains(Top.path, Top.sorted_moves[Top.idx])

C5_InvalidBoardRejected ==
    ~IsValidBoard(initial_board) => (pc = "call" /\ stack = << >>)

(* C6: solve(g, g, max_depth) with max_depth >= 1 returns the path [g].     *)
C6_GoalAsStart ==
    (pc = "done" /\ ValidInputs /\ initial_board = goal_board
        /\ max_depth_arg >= 1) =>
        result = Some(<<goal_board>>)

C6_Witness ==
    /\ pc = "done"
    /\ initial_board = goal_board
    /\ max_depth_arg = 1
    /\ result = Some(<<goal_board>>)

(* C7: when the goal is one blank slide away from the start and             *)
(* max_depth >= 2, the call returns exactly [start, goal].                  *)
C7_OneMoveAway ==
    (pc = "done" /\ ValidInputs /\ IsSlide(initial_board, goal_board)
        /\ max_depth_arg >= 2) =>
        result = Some(<<initial_board, goal_board>>)

C7_Witness ==
    /\ pc = "done"
    /\ IsSlide(initial_board, goal_board)
    /\ max_depth_arg = DefaultMaxDepth
    /\ result = Some(<<initial_board, goal_board>>)

(* C8: next_states of a valid board is exactly the slides up, down, left,   *)
(* right (in that order) whose target is inside the grid: 2 boards for a    *)
(* corner blank, 3 for an edge blank, 4 for a center blank.                 *)
C8_NextStatesExact ==
    IsValidBoard(pboard) =>
        /\ psucc = ExpectedSuccessors(pboard)
        /\ Len(psucc) = ExpectedCount(pboard)

C8_Witness ==
    /\ psteps >= 1
    /\ IsValidBoard(pboard)
    /\ BlankCell(pboard) = <<1, 1>>
    /\ Len(psucc) = 4

(* C9: from a valid start board, every board produced during the call (the  *)
(* sorted successors, every path argument, the returned path) holds each of *)
(* the values 0..8 exactly once in a 3x3 grid.                              *)
C9_BoardsStayPermutations ==
    IsValidBoard(initial_board) =>
        /\ IsValidBoard(arg_board)
        /\ \A i \in 1..Len(EntryPath) : IsValidBoard(EntryPath[i])
        /\ \A k \in 1..Len(stack) :
              /\ \A i \in 1..Len(stack[k].path) : IsValidBoard(stack[k].path[i])
              /\ \A i \in 1..Len(stack[k].sorted_moves) :
                    IsValidBoard(stack[k].sorted_moves[i])
        /\ \A i \in 1..Len(result.path) : IsValidBoard(result.path[i])

C9_Witness ==
    /\ IsValidBoard(initial_board)
    /\ pc = "loop"
    /\ Len(stack) >= 3
    /\ Len(Top.sorted_moves) = 4

(* C10: one slide changes manhattan_distance to the goal by at most 1.      *)
C10_HeuristicConsistent ==
    (IsValidBoard(pboard) /\ IsValidBoard(pgoal)) =>
        \A i \in 1..Len(psucc) :
            Abs(manhattan_distance(psucc[i], pgoal) - pdist) <= 1

C10_Witness ==
    /\ psteps >= 2
    /\ \E i, j \in 1..Len(psucc) :
          /\ manhattan_distance(psucc[i], pgoal) = pdist + 1
          /\ manhattan_distance(psucc[j], pgoal) = pdist - 1

----------------------------------------------------------------------------
(* Termination measure of a call.  Each nesting level contributes one digit: *)
(* a frame with r successors left counts 2 * r, plus 1 while it stands at    *)
(* the head of its loop; an invocation that was called but has not run yet   *)
(* counts more than any frame.  The leading digit tells a running call from  *)
(* a finished one.  Digits are compared lexicographically, outermost first.  *)

PendingDigit == 2 * Len(directions) + 2

FrameDigit(k) ==
    2 * (Len(stack[k].sorted_moves) + 1 - stack[k].idx)
    + (IF k = Len(stack) /\ pc = "loop" THEN 1 ELSE 0)

Rank ==
    <<IF pc = "done" THEN 0 ELSE 1>>
    \o [k \in 1..Len(stack) |-> FrameDigit(k)]
    \o (IF pc = "call" THEN <<PendingDigit>> ELSE << >>)

Digit(r, k) == IF k <= Len(r) THEN r[k] ELSE 0

\* r is lexicographically smaller than s (missing digits count as 0)
LexLess(r, s) ==
    LET n == IF Len(r) > Len(s) THEN Len(r) ELSE Len(s)
    IN  \E k \in 1..n :
           /\ Digit(r, k) < Digit(s, k)
           /\ \A j \in 1..(k - 1) : Digit(r, j) = Digit(s, j)

\* The invocation with a path of n boards is nested n - 1 calls deep
NestingWithinDepth ==
    /\ \A k \in 1..Len(stack) :
          /\ Len(stack[k].path) = k
          /\ stack[k].idx \in 1..(Len(stack[k].sorted_moves) + 1)
          /\ Len(stack[k].sorted_moves) <= Len(directions)
    /\ Len(stack) <= max_depth_arg
    /\ pc = "loop" => stack # << >>
    /\ pc = "call" =>
          /\ Len(EntryPath) = Len(stack) + 1
          /\ Len(EntryPath) - 1 <= max_depth_arg

(* C11: a call on valid boards terminates (every step lowers a measure that *)
(* takes finitely many values), every recursive call extends the path by    *)
(* one board, and no invocation is nested more than max_depth calls below   *)
(* the top-level call.                                                      *)
C11_TerminatesWithinDepth ==
    [][ ValidInputs =>
          /\ NestingWithinDepth
          /\ NestingWithinDepth'
          /\ LexLess(Rank', Rank) ]_vars

C11_Witness ==
    /\ ValidInputs
    /\ pc = "ret"
    /\ max_depth_arg >= 3
    /\ Len(stack) = max_depth_arg
    /\ Len(EntryPath) = max_depth_arg + 1
    /\ result = None

----------------------------------------------------------------------------
(* Vocabulary of the lookup and ordering properties *)

Holds(b, v) == \E p \in Cells : b[p[1] + 1][p[2] + 1] = v

IsCoordinatePair(x) == DOMAIN x = 1..2 /\ x[1] \in Int /\ x[2] \in Int

NotFoundPosition == <<-1, -1>>

PosIn(seq, x) == CHOOSE i \in 1..Len(seq) : seq[i] = x

IsPermutationOf(a, b) ==
    /\ Len(a) = Len(b)
    /\ \A i \in 1..Len(b) : Contains(a, b[i])
    /\ NoRepeat(b)

Ascending(seq, g) ==
    \A i, j \in 1..Len(seq) :
        i < j => manhattan_distance(seq[i], g) <= manhattan_distance(seq[j], g)

\* Boards at equal distance stand in the order they have in `original`
TiesKeepOrder(seq, original, g) ==
    \A i, j \in 1..Len(seq) :
        (i < j /\ manhattan_distance(seq[i], g) = manhattan_distance(seq[j], g))
            => PosIn(original, seq[i]) < PosIn(original, seq[j])

\* Boards at equal distance stand in the reverse of their order in `original`
TiesReverseOrder(seq, original, g) ==
    \A i, j \in 1..Len(seq) :
        (i < j /\ manhattan_distance(seq[i], g) = manhattan_distance(seq[j], g))
            => PosIn(original, seq[i]) > PosIn(original, seq[j])

(* C12 as claimed: looking up a value the board does not hold fails instead *)
(* of returning a (row, col) pair, for find_tile_position and for find_zero. *)
C12_AbsentValueFails ==
    /\ \A v \in LookupValues :
          ~Holds(pboard, v) => ~IsCoordinatePair(ptiles[v])
    /\ ~Holds(pboard, 0) => ~IsCoordinatePair(pzero)

(* C12 as amended: looking up a value the board does not hold returns the   *)
(* pair (-1, -1), which is no cell of the grid, and raises nothing; a value *)
(* the board holds is located at a cell of the grid that holds it.          *)
C12_AbsentValueGivesSentinel ==
    /\ \A v \in LookupValues :
          IF Holds(pboard, v)
          THEN /\ ptiles[v] \in Cells
               /\ pboard[ptiles[v][1] + 1][ptiles[v][2] + 1] = v
          ELSE ptiles[v] = NotFoundPosition
    /\ IF Holds(pboard, 0)
       THEN pzero \in Cells /\ pboard[pzero[1] + 1][pzero[2] + 1] = 0
       ELSE pzero = NotFoundPosition
    /\ NotFoundPosition \notin Cells

C12_Witness ==
    /\ ~Holds(pboard, 0)
    /\ ~Holds(pboard, 9)
    /\ pzero = NotFoundPosition
    /\ ptiles[9] = NotFoundPosition
    /\ ptiles[0] = NotFoundPosition

(* C13 as claimed: the sorted successors are a permutation of next_states(b) *)
(* in non-decreasing distance, equal distances keeping generation order.     *)
C13_StableAscending ==
    IsValidBoard(pboard) =>
        /\ IsPermutationOf(psorted, psucc)
        /\ Ascending(psorted, pgoal)
        /\ TiesKeepOrder(psorted, psucc, pgoal)

(* C13 as amended: the sorted successors are a permutation of next_states(b) *)
(* in non-decreasing distance, and successors at equal distance stand in the *)
(* reverse of their generation order (right, left, down, up).                *)
C13_AscendingTiesReversed ==
    IsValidBoard(pboard) =>
        /\ IsPermutationOf(psorted, psucc)
        /\ Ascending(psorted, pgoal)
        /\ TiesReverseOrder(psorted, psucc, pgoal)

C13_Witness ==
    /\ IsValidBoard(pboard)
    /\ psteps >= 1
    /\ Len(psorted) = 4
    /\ manhattan_distance(psorted[1], pgoal) < manhattan_distance(psorted[2], pgoal)
    /\ manhattan_distance(psorted[2], pgoal) = manhattan_distance(psorted[3], pgoal)
    /\ PosIn(psucc, psorted[2]) > PosIn(psucc, psorted[3])

----------------------------------------------------------------------------
\* The returned value is a path (not None)
IsPath(r) == ~r.none

(* C14: once a recursive call has returned a path, no further invocation of *)
(* solve starts and every enclosing call returns that same path; the loop   *)
(* of a frame advances one successor at a time, and only past a successor   *)
(* that was skipped or whose recursive call returned None, so a successor   *)
(* is tried only after all those sorted before it have failed.              *)
C14_FirstSuccessReturns ==
    [][ /\ (pc = "ret" /\ IsPath(result)) =>
              /\ pc' \in {"ret", "done"}
              /\ result' = result
              /\ stack # << >> => stack' = Pop
        /\ pc' = "call" =>
              /\ ~IsPath(result)
              /\ stack' = stack
              /\ arg_board' = Top.sorted_moves[Top.idx]
        /\ \A k \in 1..Len(stack) :
              (k <= Len(stack') /\ stack'[k] # stack[k]) =>
                  /\ k = Len(stack)
                  /\ stack'[k] = [stack[k] EXCEPT !.idx = stack[k].idx + 1]
                  /\ \/ pc = "ret" /\ ~IsPath(result)
                     \/ /\ pc = "loop"
                        /\ \/ Contains(stack[k].path,
                                       stack[k].sorted_moves[stack[k].idx])
                           \/ ~is_move_promising(
                                  stack[k].sorted_moves[stack[k].idx],
                                  goal_board, stack[k].current_distance) ]_vars

C14_Witness ==
    /\ pc = "ret"
    /\ IsPath(result)
    /\ Len(stack) >= 2
    /\ Top.idx < Len(Top.sorted_moves)
    /\ \E k \in 1..Len(stack) : stack[k].idx >= 2

----------------------------------------------------------------------------
\* No start board of Spec that can reach its goal is further from it
SearchHorizon == DetourDepth - 1

\* The goal can be reached from the start board in at most max_depth - 1
\* slides (slides are reversible, so the boards are collected from the start)
GoalWithinDepth ==
    /\ max_depth_arg >= 1
    /\ goal_board \in Scrambles(initial_board,
          IF max_depth_arg - 1 < SearchHorizon THEN max_depth_arg - 1
          ELSE SearchHorizon)

(* C15: when the goal is at most max_depth - 1 slides from a valid start,   *)
(* the call returns a path and not None.                                    *)
C15_CompleteWithinDepth ==
    (pc = "done" /\ ValidInputs /\ GoalWithinDepth) => IsPath(result)

C15_Witness ==
    /\ pc = "done"
    /\ initial_board = DetourStart
    /\ max_depth_arg = DetourDepth
    /\ GoalWithinDepth
    /\ IsPath(result)
    /\ Len(result.path) = max_depth_arg

(* C16: on valid boards every generated successor passes the promising      *)
(* filter, because its distance differs from the board's by exactly 1; the  *)
(* loop steps over a successor without recursing only when the successor is *)
(* already in the current path.                                             *)
C16_FilterNeverRejects ==
    [][ (ValidInputs /\ pc = "loop") =>
          /\ \A i \in 1..Len(Top.sorted_moves) :
                /\ is_move_promising(Top.sorted_moves[i], goal_board,
                                     Top.current_distance)
                /\ Abs(manhattan_distance(Top.sorted_moves[i], goal_board)
                       - Top.current_distance) = 1
          /\ (pc' = "loop" /\ Top.idx <= Len(Top.sorted_moves)) =>
                Contains(Top.path, Top.sorted_moves[Top.idx]) ]_vars

C16_Witness ==
    /\ ValidInputs
    /\ pc = "call"
    /\ stack # << >>
    /\ arg_board = Top.sorted_moves[Top.idx]
    /\ manhattan_distance(arg_board, goal_board) = Top.current_distance + 1

(* C17: on valid boards the distance is at most 32 (8 tiles, 4 cells each), *)
(* so the relaxed pruning rule holds for no path length above 25.           *)
C17_PruningNeverFires ==
    (IsValidBoard(pboard) /\ IsValidBoard(pgoal)) =>
        /\ pdist <= 8 * 4
        /\ \A n \in (PruneDepth + 1)..(DefaultMaxDepth + 1) :
              ~relaxed_pruning(n, pdist)

C17_Witness ==
    /\ IsValidBoard(pboard)
    /\ psteps >= 1
    /\ pdist >= 21

====
